---- MODULE Spec2Model ----
(***************************************************************************)
(* Model of api/server/router/image/image_routes.go: the registry          *)
(* resolver (getRegistryUrl), the reference rewriter (convertImageTag)     *)
(* and the pull / retag / cleanup handler (postImagesCreate).              *)
(*                                                                         *)
(* Strings are sequences of one-character strings, so that counting,       *)
(* indexing, slicing and concatenation are computed as the Go code         *)
(* computes them.  Go positions are 0-based; the positions here are        *)
(* 1-based, 0 standing for Go's -1 ("not found").                          *)
(***************************************************************************)
EXTENDS Integers, Sequences, FiniteSets, TLC

(***************************************************************************)
(* Bounds of the model.                                                    *)
(***************************************************************************)
\* longest image name enumerated exhaustively for the rewriter
MaxLen == 4
\* most progress chunks a backend call writes to the output sink
MaxWrites == 1

(***************************************************************************)
(* Package variables, lines 28-36.                                         *)
(***************************************************************************)
defaultRegistryUrl == <<"d", "o", "c", "k", "e", "r", ".", "i", "o">>
defaultUserName == <<"l", "i", "b", "r", "a", "r", "y">>
\* buf := make([]byte, 32)
ResolverBufLen == 32

(***************************************************************************)
(* String helpers (package strings).                                       *)
(***************************************************************************)
Min(a, b) == IF a < b THEN a ELSE b

\* strings.Count(s, c) for a one-character c
Count(s, c) == Cardinality({i \in 1..Len(s) : s[i] = c})

\* strings.IndexRune(s, c): first position of c, 0 when absent
IndexRune(s, c) ==
    IF \E i \in 1..Len(s) : s[i] = c
      THEN CHOOSE i \in 1..Len(s) : s[i] = c /\ \A j \in 1..(i - 1) : s[j] # c
      ELSE 0

\* strings.LastIndex(s, c): last position of c, 0 when absent
LastIndex(s, c) ==
    IF \E i \in 1..Len(s) : s[i] = c
      THEN CHOOSE i \in 1..Len(s) : s[i] = c /\ \A j \in (i + 1)..Len(s) : s[j] # c
      ELSE 0

\* strings.ContainsAny(s, chars)
ContainsAny(s, chars) == \E i \in 1..Len(s) : s[i] \in chars

\* s[:i] with i the 1-based position of the separator: what precedes it
Before(s, i) == SubSeq(s, 1, i - 1)

\* s[i+1:] with i the 1-based position of the separator: what follows it
After(s, i) == SubSeq(s, i + 1, Len(s))

\* s[:n]
Take(s, n) == SubSeq(s, 1, n)

localhost == <<"l", "o", "c", "a", "l", "h", "o", "s", "t">>
Slash == <<"/">>
Colon == <<":">>

(***************************************************************************)
(* Faulty variants of convertImageTag, used to show that the properties    *)
(* below depend on the code.                                               *)
(***************************************************************************)
\* forgets the "localhost" test of line 72
convertImageTag_noLocalhost(domain, imageWithoutTag) ==
    LET n == Count(imageWithoutTag, "/")
        i == IndexRune(imageWithoutTag, "/")
    IN  CASE n = 2 -> domain \o Slash \o After(imageWithoutTag, i)
          [] n = 1 ->
               IF ~ContainsAny(Before(imageWithoutTag, i), {".", ":"})
                 THEN domain \o Slash \o imageWithoutTag
                 ELSE domain \o Slash \o defaultUserName \o Slash
                        \o After(imageWithoutTag, i)
          [] n = 0 -> domain \o Slash \o defaultUserName \o Slash \o imageWithoutTag
          [] OTHER -> << >>

\* forgets the default namespace of line 81
convertImageTag_noNamespace(domain, imageWithoutTag) ==
    LET n == Count(imageWithoutTag, "/")
        i == IndexRune(imageWithoutTag, "/")
    IN  CASE n = 2 -> domain \o Slash \o After(imageWithoutTag, i)
          [] n = 1 ->
               IF /\ ~ContainsAny(Before(imageWithoutTag, i), {".", ":"})
                  /\ Before(imageWithoutTag, i) # localhost
                 THEN domain \o Slash \o imageWithoutTag
                 ELSE domain \o Slash \o defaultUserName \o Slash
                        \o After(imageWithoutTag, i)
          [] n = 0 -> domain \o Slash \o imageWithoutTag
          [] OTHER -> << >>

\* cuts at the last '/' instead of the first at line 68
convertImageTag_lastSlash(domain, imageWithoutTag) ==
    LET n == Count(imageWithoutTag, "/")
        i == IndexRune(imageWithoutTag, "/")
    IN  CASE n = 2 -> domain \o Slash
                        \o After(imageWithoutTag, LastIndex(imageWithoutTag, "/"))
          [] n = 1 ->
               IF /\ ~ContainsAny(Before(imageWithoutTag, i), {".", ":"})
                  /\ Before(imageWithoutTag, i) # localhost
                 THEN domain \o Slash \o imageWithoutTag
                 ELSE domain \o Slash \o defaultUserName \o Slash
                        \o After(imageWithoutTag, i)
          [] n = 0 -> domain \o Slash \o defaultUserName \o Slash \o imageWithoutTag
          [] OTHER -> << >>

\* treats deeper names like the two-separator case instead of line 85
convertImageTag_deepNames(domain, imageWithoutTag) ==
    LET n == Count(imageWithoutTag, "/")
        i == IndexRune(imageWithoutTag, "/")
    IN  CASE n >= 2 -> domain \o Slash \o After(imageWithoutTag, i)
          [] n = 1 ->
               IF /\ ~ContainsAny(Before(imageWithoutTag, i), {".", ":"})
                  /\ Before(imageWithoutTag, i) # localhost
                 THEN domain \o Slash \o imageWithoutTag
                 ELSE domain \o Slash \o defaultUserName \o Slash
                        \o After(imageWithoutTag, i)
          [] OTHER -> domain \o Slash \o defaultUserName \o Slash \o imageWithoutTag

(***************************************************************************)
(* convertImageTag, lines 63-87.                                           *)
(***************************************************************************)
convertImageTag(domain, imageWithoutTag) ==
    LET n == Count(imageWithoutTag, "/")
        i == IndexRune(imageWithoutTag, "/")
    IN  CASE n = 2 -> domain \o Slash \o After(imageWithoutTag, i)
          [] n = 1 ->
               IF /\ ~ContainsAny(Before(imageWithoutTag, i), {".", ":"})
                  /\ Before(imageWithoutTag, i) # localhost
                 THEN domain \o Slash \o imageWithoutTag
                 ELSE domain \o Slash \o defaultUserName \o Slash
                        \o After(imageWithoutTag, i)
          [] n = 0 -> domain \o Slash \o defaultUserName \o Slash \o imageWithoutTag
          [] OTHER -> << >>

\* a faulty getRegistryUrl that reads the body whatever the status is
getRegistryUrl_anyStatus(resp) ==
    IF ~resp.connOk
      THEN defaultRegistryUrl
      ELSE Take(resp.body, Min(Len(resp.body), ResolverBufLen))

(***************************************************************************)
(* getRegistryUrl, lines 38-61.  resp is what the local resolver answers:  *)
(* connOk (client.Get err == nil), status (resp.StatusCode), body, and n,  *)
(* the count the single resp.Body.Read(buf) reports (its error is          *)
(* discarded by "n, _ :=").                                                *)
(***************************************************************************)
getRegistryUrl(resp) ==
    IF ~resp.connOk
      THEN defaultRegistryUrl
      ELSE IF resp.status = 200
             THEN Take(resp.body, resp.n)
             ELSE defaultRegistryUrl

(***************************************************************************)
(* github.com/docker/distribution/reference, as the handler uses it at     *)
(* lines 164-165: ParseNormalizedNamed and FamiliarString.  The character  *)
(* classes cover the characters the model's strings are built from.        *)
(***************************************************************************)
LowerAlnum == {"a", "b", "c", "d", "e", "g", "h", "i", "k", "l", "m", "n",
               "o", "p", "r", "s", "t", "u", "x", "y", "0", "1", "5"}
UpperAlpha == {"N"}
Digits == {"0", "1", "5"}
Separators == {".", "_", "-"}

RECURSIVE Split(_, _)
\* strings.Split(s, c) for a one-character c
Split(s, c) ==
    LET i == IndexRune(s, c)
    IN  IF i = 0 THEN <<s>> ELSE <<Before(s, i)>> \o Split(After(s, i), c)

\* path-component := alpha-numeric [separator alpha-numeric]*
PathComponentOK(p) ==
    /\ Len(p) > 0
    /\ \A i \in 1..Len(p) : p[i] \in LowerAlnum \cup Separators
    /\ p[1] \in LowerAlnum
    /\ p[Len(p)] \in LowerAlnum
    /\ \A i \in 1..(Len(p) - 1) :
         (p[i] \in Separators /\ p[i + 1] \in Separators) =>
            \/ p[i] = "-" /\ p[i + 1] = "-"
            \/ /\ p[i] = "_" /\ p[i + 1] = "_"
               /\ (i + 2 <= Len(p) => p[i + 2] # "_")
               /\ (i > 1 => p[i - 1] # "_")

\* domain-component := /([a-zA-Z0-9]|[a-zA-Z0-9][a-zA-Z0-9-]*[a-zA-Z0-9])/
DomainComponentOK(d) ==
    /\ Len(d) > 0
    /\ \A i \in 1..Len(d) : d[i] \in LowerAlnum \cup UpperAlpha \cup {"-"}
    /\ d[1] # "-"
    /\ d[Len(d)] # "-"

\* domain := domain-component ['.' domain-component]* [':' port-number]
DomainOK(d) ==
    LET parts == Split(d, ":")
        host == Split(parts[1], ".")
    IN  /\ Len(parts) <= 2
        /\ \A i \in 1..Len(host) : DomainComponentOK(host[i])
        /\ Len(parts) = 2 =>
             /\ Len(parts[2]) > 0
             /\ \A i \in 1..Len(parts[2]) : parts[2][i] \in Digits

\* tag := /[\w][\w.-]{0,127}/
TagOK(t) ==
    /\ Len(t) \in 1..128
    /\ \A i \in 1..Len(t) :
         t[i] \in LowerAlnum \cup UpperAlpha \cup {"_", ".", "-"}
    /\ t[1] \notin {".", "-"}

\* splitDockerDomain: the domain a name is under and the rest of the name
splitDockerDomain(name) ==
    LET i == IndexRune(name, "/")
        bare == \/ i = 0
                \/ /\ ~ContainsAny(Before(name, i), {".", ":"})
                   /\ Before(name, i) # localhost
        d == IF bare THEN defaultRegistryUrl ELSE Before(name, i)
        r0 == IF bare THEN name ELSE After(name, i)
        r1 == IF d = defaultRegistryUrl /\ Count(r0, "/") = 0
                THEN defaultUserName \o Slash \o r0
                ELSE r0
    IN  [domain |-> d, remainder |-> r1]

\* ParseNormalizedNamed(s): ok is FALSE where the library returns (nil, err)
ParseNormalizedNamed(s) ==
    LET sp == splitDockerDomain(s)
        tagSep == IndexRune(sp.remainder, ":")
        remoteName == IF tagSep > 0 THEN Before(sp.remainder, tagSep)
                                    ELSE sp.remainder
        tagPart == IF tagSep > 0 THEN After(sp.remainder, tagSep) ELSE << >>
        comps == Split(remoteName, "/")
        valid == /\ \A i \in 1..Len(remoteName) : remoteName[i] \notin UpperAlpha
                 /\ DomainOK(sp.domain)
                 /\ \A i \in 1..Len(comps) : PathComponentOK(comps[i])
                 /\ tagSep > 0 => TagOK(tagPart)
    IN  [ok |-> valid, domain |-> sp.domain, path |-> remoteName,
         hasTag |-> tagSep > 0, tag |-> tagPart]

\* FamiliarString(ref) of a successfully parsed reference
FamiliarString(ref) ==
    LET comps == Split(ref.path, "/")
        official == /\ ref.domain = defaultRegistryUrl
                    /\ Len(comps) = 2
                    /\ comps[1] = defaultUserName
        name == IF ref.domain = defaultRegistryUrl
                  THEN (IF official THEN comps[2] ELSE ref.path)
                  ELSE ref.domain \o Slash \o ref.path
    IN  IF ref.hasTag THEN name \o Colon \o ref.tag ELSE name

(***************************************************************************)
(* pkg/ioutils WriteFlusher: the output sink of one handler invocation.    *)
(* written is what reached the client, flushed is Flushed(), closed counts *)
(* the calls of Close().                                                   *)
(***************************************************************************)
NewWriteFlusher == [written |-> << >>, flushed |-> FALSE, closed |-> 0]

\* output.Write(chunk): the chunk is written through and flushed
Write(out, chunk) == [out EXCEPT !.written = Append(@, chunk), !.flushed = TRUE]

\* output.Close()
Close(out) == [out EXCEPT !.closed = @ + 1]

RECURSIVE Progress(_, _)
\* a backend call streaming k progress chunks into the sink
Progress(out, k) == IF k = 0 THEN out ELSE Progress(Write(out, "progress"), k - 1)

\* streamformatter.FormatError(err), the in-band error object
FormatError(e) == <<"errorObject", e>>

(***************************************************************************)
(* versions.GreaterThanOrEqualTo on dotted versions <<major, minor>>.      *)
(***************************************************************************)
GreaterThanOrEqualTo(v, other) ==
    \/ v[1] > other[1]
    \/ v[1] = other[1] /\ v[2] >= other[2]

\* the "1.32" of line 113
PlatformMinVersion == <<1, 32>>

(***************************************************************************)
(* Requests and collaborator answers the model draws from.                 *)
(***************************************************************************)
nginx == <<"n", "g", "i", "n", "x">>
myuser == <<"m", "y", "u", "s", "e", "r">>
oldreg == <<"o", "l", "d", "r", "e", "g", ".", "i", "o">>
myreg == <<"m", "y", "r", "e", "g", ".", "i", "o">>
registryExample == <<"r", "e", "g", "i", "s", "t", "r", "y", ".", "e", "x", "a",
                     "m", "p", "l", "e", ".", "c", "o", "m">>
latest == <<"l", "a", "t", "e", "s", "t">>
\* a registry host name of 36 characters, longer than the resolver's buffer
longHost == [i \in 1..36 |-> IF i = 34 THEN "." ELSE IF i = 35 THEN "i"
                              ELSE IF i = 36 THEN "o" ELSE "r"]

\* values of the fromImage form field (line 97); << >> is the import request
Images ==
    { << >>,
      nginx,
      <<"N">> \o Tail(nginx),
      myuser \o Slash \o nginx,
      localhost \o Slash \o nginx,
      registryExample \o Slash \o nginx,
      oldreg \o Slash \o myuser \o Slash \o nginx,
      <<"a", "/", "b", "/", "c", "/", "d">> }

\* values of the tag form field (line 99)
Tags == { latest, << >> }

\* negotiated API versions (line 112)
Versions == { <<1, 31>>, <<1, 32>> }

\* values of the platform form field (line 114), by what platforms.Parse and
\* system.ValidatePlatform make of them
Platforms == { "", "linux", "unparsable", "unsupported" }

Requests ==
    [ formErr : BOOLEAN, fromImage : Images, tag : Tags,
      version : Versions, platform : Platforms ]

\* counts a single Read into a 32-byte buffer can report for a body:
\* nothing, a partial read, everything that fits
ReadCounts(body) ==
    { 0, Min(Len(body), ResolverBufLen) \div 2, Min(Len(body), ResolverBufLen) }

\* answers of the local resolver (lines 48-59)
Responses ==
    { [connOk |-> FALSE, status |-> 0, body |-> << >>, n |-> 0] }
    \cup { [connOk |-> TRUE, status |-> st, body |-> << >>, n |-> 0] :
             st \in {404, 500} }
    \cup UNION { { [connOk |-> TRUE, status |-> 200, body |-> b, n |-> k] :
                     k \in ReadCounts(b) } :
                 b \in { << >>, myreg, defaultRegistryUrl, longHost } }

\* strings backend.TagImage can hand back (line 156)
TagReturns(src, img, t) ==
    LET want == ParseNormalizedNamed(img \o Colon \o t)
        have == ParseNormalizedNamed(src)
    IN  { << >>, img \o Colon \o t }
        \cup (IF want.ok THEN { FamiliarString(want) } ELSE {})
        \cup (IF have.ok THEN { FamiliarString(have) } ELSE {})

(***************************************************************************)
(* State of one postImagesCreate invocation, lines 90-191.                 *)
(***************************************************************************)
VARIABLES
    pc,             \* the statement the handler is at
    r,              \* the request
    image,          \* r.Form.Get("fromImage")
    tag,            \* r.Form.Get("tag")
    platform,       \* *specs.Platform: "nil" or the parsed platform
    err,            \* the handler's err variable (line 101)
    output,         \* ioutils.NewWriteFlusher(w)
    registryUrl,    \* line 147
    newImage,       \* line 148
    srcTotalImage,  \* line 154
    newRetagReturn, \* line 156
    ret,            \* what the invocation ended with
    calls,          \* the calls made to the resolver and the backend, in order
    store,          \* the backend's reference store, shared by all requests
    wf              \* the pull workflows running concurrently on the backend

vars == << pc, r, image, tag, platform, err, output, registryUrl, newImage,
           srcTotalImage, newRetagReturn, ret, calls, store, wf >>

Call(op, args, res) == [op |-> op, args |-> args, res |-> res]

Init ==
    /\ r \in Requests
    /\ pc = "ParseForm"
    /\ image = << >>
    /\ tag = << >>
    /\ platform = "nil"
    /\ err = "nil"
    /\ output = NewWriteFlusher
    /\ registryUrl = << >>
    /\ newImage = << >>
    /\ srcTotalImage = << >>
    /\ newRetagReturn = << >>
    /\ ret = "running"
    /\ calls = << >>
    /\ store = {}
    /\ wf = << >>

\* a faulty branch that takes the pull path for every request
Branch_alwaysPull(img) == "Resolve"

\* line 127: "if image != "" { // pull ... } else { // import"
Branch(img) == IF img # << >> THEN "Resolve" ELSE "ImportImage"

\* return e: the deferred output.Close() of line 105 runs
Return(e) ==
    /\ pc' = "done"
    /\ ret' = e

\* lines 92-105
ParseForm ==
    /\ pc = "ParseForm"
    /\ IF r.formErr
         THEN /\ Return("errForm")
              /\ UNCHANGED << image, tag, output >>
         ELSE /\ image' = r.fromImage
              /\ tag' = r.tag
              /\ output' = NewWriteFlusher
              /\ pc' = "Platform"
              /\ UNCHANGED ret
    /\ UNCHANGED << r, platform, err, registryUrl, newImage, srcTotalImage,
                    newRetagReturn, calls >>
    /\ UNCHANGED << store, wf >>

\* a faulty platform check that parses the platform at every API version
Platform_ignoresVersion ==
    /\ pc = "Platform"
    /\ IF r.platform # ""
         THEN IF r.platform = "unparsable"
                THEN /\ Return("errPlatformParse")
                     /\ output' = Close(output)
                     /\ UNCHANGED platform
                ELSE IF r.platform = "unsupported"
                       THEN /\ Return("errPlatformValidate")
                            /\ output' = Close(output)
                            /\ UNCHANGED platform
                       ELSE /\ platform' = r.platform
                            /\ pc' = Branch(image)
                            /\ UNCHANGED << ret, output >>
         ELSE /\ pc' = Branch(image)
              /\ UNCHANGED << ret, output, platform >>
    /\ UNCHANGED << r, image, tag, err, registryUrl, newImage,
                    srcTotalImage, newRetagReturn, calls >>
    /\ UNCHANGED << store, wf >>

\* lines 112-127
Platform ==
    /\ pc = "Platform"
    /\ IF GreaterThanOrEqualTo(r.version, PlatformMinVersion) /\ r.platform # ""
         THEN IF r.platform = "unparsable"
                THEN /\ Return("errPlatformParse")
                     /\ output' = Close(output)
                     /\ UNCHANGED platform
                ELSE IF r.platform = "unsupported"
                       THEN /\ Return("errPlatformValidate")
                            /\ output' = Close(output)
                            /\ UNCHANGED platform
                       ELSE /\ platform' = r.platform
                            /\ pc' = Branch(image)
                            /\ UNCHANGED << ret, output >>
         ELSE /\ pc' = Branch(image)
              /\ UNCHANGED << ret, output, platform >>
    /\ UNCHANGED << r, image, tag, err, registryUrl, newImage, srcTotalImage,
                    newRetagReturn, calls >>
    /\ UNCHANGED << store, wf >>

\* a faulty resolver call that leaves the tag out of the name it asks about
Resolve_withoutTag ==
    /\ pc = "Resolve"
    /\ \E resp \in Responses :
         /\ registryUrl' = getRegistryUrl(resp)
         /\ calls' = Append(calls, Call("getRegistryUrl", <<image>>, resp))
    /\ pc' = "Convert"
    /\ UNCHANGED << r, image, tag, platform, err, output, newImage,
                    srcTotalImage, newRetagReturn, ret >>
    /\ UNCHANGED << store, wf >>

\* line 147
Resolve ==
    /\ pc = "Resolve"
    /\ \E resp \in Responses :
         /\ registryUrl' = getRegistryUrl(resp)
         /\ calls' = Append(calls, Call("getRegistryUrl",
                                        <<image \o Colon \o tag>>, resp))
    /\ pc' = "Convert"
    /\ UNCHANGED << r, image, tag, platform, err, output, newImage,
                    srcTotalImage, newRetagReturn, ret >>
    /\ UNCHANGED << store, wf >>

\* line 148
Convert ==
    /\ pc = "Convert"
    /\ newImage' = convertImageTag(registryUrl, image)
    /\ calls' = Append(calls, Call("convertImageTag", <<registryUrl, image>>,
                                   convertImageTag(registryUrl, image)))
    /\ pc' = "PullImage"
    /\ UNCHANGED << r, image, tag, platform, err, output, registryUrl,
                    srcTotalImage, newRetagReturn, ret >>
    /\ UNCHANGED << store, wf >>

\* a faulty pull step that goes straight to the error handling on failure
PullImage_shortCircuit ==
    /\ pc = "PullImage"
    /\ \E k \in 0..MaxWrites, e \in {"nil", "errPull"} :
         /\ output' = Progress(output, k)
         /\ err' = e
         /\ calls' = Append(calls, Call("PullImage", <<newImage, tag, platform>>, e))
         /\ pc' = IF e = "nil" THEN "TagImage" ELSE "Surface"
    /\ UNCHANGED << r, image, tag, platform, registryUrl, newImage,
                    srcTotalImage, newRetagReturn, ret >>
    /\ UNCHANGED << store, wf >>

\* line 151
PullImage ==
    /\ pc = "PullImage"
    /\ \E k \in 0..MaxWrites, e \in {"nil", "errPull"} :
         /\ output' = Progress(output, k)
         /\ err' = e
         /\ calls' = Append(calls, Call("PullImage", <<newImage, tag, platform>>, e))
    /\ pc' = "TagImage"
    /\ UNCHANGED << r, image, tag, platform, registryUrl, newImage,
                    srcTotalImage, newRetagReturn, ret >>
    /\ UNCHANGED << store, wf >>

\* a faulty TagImage step that stores the retag error in err
TagImage_assignsErr ==
    /\ pc = "TagImage"
    /\ srcTotalImage' = newImage \o Colon \o tag
    /\ \E s \in TagReturns(newImage \o Colon \o tag, image, tag),
          retagError \in {"nil", "errTag"} :
         /\ newRetagReturn' = s
         /\ err' = retagError
         /\ calls' = Append(calls, Call("TagImage",
                                        <<newImage \o Colon \o tag, image, tag>>,
                                        <<s, retagError>>))
    /\ pc' = "Cleanup"
    /\ UNCHANGED << r, image, tag, platform, output, registryUrl,
                    newImage, ret >>
    /\ UNCHANGED << store, wf >>

\* lines 153-161
TagImage ==
    /\ pc = "TagImage"
    /\ srcTotalImage' = newImage \o Colon \o tag
    /\ \E s \in TagReturns(newImage \o Colon \o tag, image, tag),
          retagError \in {"nil", "errTag"} :
         /\ newRetagReturn' = s
         /\ calls' = Append(calls, Call("TagImage",
                                        <<newImage \o Colon \o tag, image, tag>>,
                                        <<s, retagError>>))
    /\ pc' = "Cleanup"
    /\ UNCHANGED << r, image, tag, platform, err, output, registryUrl,
                    newImage, ret >>
    /\ UNCHANGED << store, wf >>

\* a faulty cleanup that compares with the reference as written, not normalized
Cleanup_comparesRaw ==
    /\ pc = "Cleanup"
    /\ LET srcTotalImageRef == ParseNormalizedNamed(srcTotalImage)
       IN  IF ~srcTotalImageRef.ok
             THEN /\ Return("panic")
                  /\ output' = Close(output)
                  /\ UNCHANGED calls
             ELSE /\ IF newRetagReturn # srcTotalImage
                       THEN \E removeError \in {"nil", "errDelete"} :
                              calls' = Append(calls,
                                  Call("ImageDelete", <<srcTotalImage, FALSE, TRUE>>,
                                       removeError))
                       ELSE UNCHANGED calls
                  /\ pc' = "Surface"
                  /\ UNCHANGED << ret, output >>
    /\ UNCHANGED << r, image, tag, platform, err, registryUrl, newImage,
                    srcTotalImage, newRetagReturn >>
    /\ UNCHANGED << store, wf >>

\* a faulty cleanup that deletes the intermediate reference unconditionally
Cleanup_alwaysDeletes ==
    /\ pc = "Cleanup"
    /\ LET srcTotalImageRef == ParseNormalizedNamed(srcTotalImage)
       IN  IF ~srcTotalImageRef.ok
             THEN /\ Return("panic")
                  /\ output' = Close(output)
                  /\ UNCHANGED calls
             ELSE /\ \E removeError \in {"nil", "errDelete"} :
                       calls' = Append(calls,
                           Call("ImageDelete", <<srcTotalImage, FALSE, TRUE>>,
                                removeError))
                  /\ pc' = "Surface"
                  /\ UNCHANGED << ret, output >>
    /\ UNCHANGED << r, image, tag, platform, err, registryUrl, newImage,
                    srcTotalImage, newRetagReturn >>
    /\ UNCHANGED << store, wf >>

\* lines 163-171
Cleanup ==
    /\ pc = "Cleanup"
    /\ LET srcTotalImageRef == ParseNormalizedNamed(srcTotalImage)
       IN  IF ~srcTotalImageRef.ok
             THEN \* FamiliarString(nil) dereferences a nil interface
                  /\ Return("panic")
                  /\ output' = Close(output)
                  /\ UNCHANGED calls
             ELSE /\ IF newRetagReturn # FamiliarString(srcTotalImageRef)
                       THEN \E removeError \in {"nil", "errDelete"} :
                              calls' = Append(calls,
                                  Call("ImageDelete", <<srcTotalImage, FALSE, TRUE>>,
                                       removeError))
                       ELSE UNCHANGED calls
                  /\ pc' = "Surface"
                  /\ UNCHANGED << ret, output >>
    /\ UNCHANGED << r, image, tag, platform, err, registryUrl, newImage,
                    srcTotalImage, newRetagReturn >>
    /\ UNCHANGED << store, wf >>

\* lines 172-182
ImportImage ==
    /\ pc = "ImportImage"
    /\ \E k \in 0..MaxWrites, e \in {"nil", "errImport"} :
         /\ output' = Progress(output, k)
         /\ err' = e
         /\ calls' = Append(calls, Call("ImportImage", <<platform, tag>>, e))
    /\ pc' = "Surface"
    /\ UNCHANGED << r, image, tag, platform, registryUrl, newImage,
                    srcTotalImage, newRetagReturn, ret >>
    /\ UNCHANGED << store, wf >>

\* a faulty last step whose hard-error return leaves the sink open
Surface_leaksOnHardError ==
    /\ pc = "Surface"
    /\ IF err # "nil"
         THEN IF ~output.flushed
                THEN /\ Return(err)
                     /\ UNCHANGED output
                ELSE /\ Return("nil")
                     /\ output' = Close(Write(output, FormatError(err)))
         ELSE /\ Return("nil")
              /\ output' = Close(output)
    /\ UNCHANGED << r, image, tag, platform, err, registryUrl, newImage,
                    srcTotalImage, newRetagReturn, calls >>
    /\ UNCHANGED << store, wf >>

\* a faulty last step that always writes the error into the stream
Surface_alwaysInBand ==
    /\ pc = "Surface"
    /\ IF err # "nil"
         THEN /\ Return("nil")
              /\ output' = Close(Write(output, FormatError(err)))
         ELSE /\ Return("nil")
              /\ output' = Close(output)
    /\ UNCHANGED << r, image, tag, platform, err, registryUrl, newImage,
                    srcTotalImage, newRetagReturn, calls >>
    /\ UNCHANGED << store, wf >>

\* lines 183-190
Surface ==
    /\ pc = "Surface"
    /\ IF err # "nil"
         THEN IF ~output.flushed
                THEN /\ Return(err)
                     /\ output' = Close(output)
                ELSE /\ Return("nil")
                     /\ output' = Close(Write(output, FormatError(err)))
         ELSE /\ Return("nil")
              /\ output' = Close(output)
    /\ UNCHANGED << r, image, tag, platform, err, registryUrl, newImage,
                    srcTotalImage, newRetagReturn, calls >>
    /\ UNCHANGED << store, wf >>

Next ==
    \/ ParseForm
    \/ Platform
    \/ Resolve
    \/ Convert
    \/ PullImage
    \/ TagImage
    \/ Cleanup
    \/ ImportImage
    \/ Surface

Spec == Init /\ [][Next]_vars

(***************************************************************************)
(* What the properties of the handler are stated over.                     *)
(***************************************************************************)
\* the calls of one operation, in order
CallsOf(op) == SelectSeq(calls, LAMBDA c : c.op = op)

\* the progress chunks and the error objects that reached the client
ProgressWritten == SelectSeq(output.written, LAMBDA c : c = "progress")
ErrorObjects == SelectSeq(output.written, LAMBDA c : c # "progress")

\* the handler ran to its last statement and returned
Returned == pc = "done" /\ ret \notin {"panic", "errForm", "errPlatformParse",
                                        "errPlatformValidate"}

CleanupDone == pc \in {"Surface", "done"} /\ CallsOf("TagImage") # << >>
                 /\ ret # "panic"

\* C3 as stated: whenever TagImage hands back exactly the requested
\* image:tag, no ImageDelete call is issued.
C3_NoDeleteWhenRequestedName ==
    (CleanupDone /\ newRetagReturn = image \o Colon \o tag) =>
        CallsOf("ImageDelete") = << >>

\* C3, amended: whenever TagImage hands back exactly the familiar form of
\* the rewritten reference newImage:tag, no ImageDelete call is issued.
C3_NoDeleteWhenSourceName ==
    (CleanupDone /\ ParseNormalizedNamed(newImage \o Colon \o tag).ok
       /\ newRetagReturn = FamiliarString(ParseNormalizedNamed(newImage \o Colon \o tag))) =>
        CallsOf("ImageDelete") = << >>

C3_Witness ==
    /\ CleanupDone
    /\ image = nginx
    /\ tag = latest
    /\ registryUrl = defaultRegistryUrl
    /\ newRetagReturn = nginx \o Colon \o latest
    /\ CallsOf("ImageDelete") = << >>

\* C8: the resolver returns "docker.io" whenever the connection fails and
\* whenever the status is not 200, and returns what it read of the body
\* only when the status is 200.
C8_ResolverDefault ==
    \A i \in 1..Len(CallsOf("getRegistryUrl")) :
        LET resp == CallsOf("getRegistryUrl")[i].res
        IN  /\ (~resp.connOk \/ resp.status # 200) =>
                   registryUrl = <<"d", "o", "c", "k", "e", "r", ".", "i", "o">>
            /\ (resp.connOk /\ resp.status = 200) =>
                   /\ registryUrl = SubSeq(resp.body, 1, resp.n)
                   /\ Len(registryUrl) <= 32

C8_Witness ==
    /\ CallsOf("getRegistryUrl") # << >>
    /\ CallsOf("getRegistryUrl")[1].res.status = 404
    /\ registryUrl = defaultRegistryUrl

\* C9: the resolver falls back to "docker.io" on every failure, a failed or
\* empty read of the body of a 200 response included; it never returns an
\* empty or partially read string.
C9_ResolverAbsorbsAll ==
    \A i \in 1..Len(CallsOf("getRegistryUrl")) :
        LET resp == CallsOf("getRegistryUrl")[i].res
            failed == \/ ~resp.connOk
                      \/ resp.status # 200
                      \/ resp.n = 0
                      \/ resp.n < Min(Len(resp.body), ResolverBufLen)
        IN  /\ failed => registryUrl = defaultRegistryUrl
            /\ registryUrl # << >>

\* the request passes ParseForm and the platform check of lines 113-125
PassesValidation ==
    /\ ~r.formErr
    /\ ~(/\ GreaterThanOrEqualTo(r.version, PlatformMinVersion)
         /\ r.platform \in {"unparsable", "unsupported"})

\* no call other than ImportImage is made for an import request, and no
\* ImportImage call for a pull request
PathsDisjoint ==
    IF r.fromImage = << >>
      THEN \A i \in 1..Len(calls) : calls[i].op = "ImportImage"
      ELSE \A i \in 1..Len(calls) : calls[i].op # "ImportImage"

\* C10 as stated: with an empty fromImage the handler calls ImportImage
\* exactly once and never the resolver, the rewriter, PullImage, TagImage or
\* ImageDelete; with a non-empty fromImage it never calls ImportImage.
C10_ImportIsolation ==
    /\ PathsDisjoint
    /\ (pc = "done" /\ r.fromImage = << >>) => Len(CallsOf("ImportImage")) = 1

\* C10, amended: the same for every request that passes form parsing and
\* platform validation; a request that fails either makes no call at all.
C10_ImportIsolationValidated ==
    /\ PathsDisjoint
    /\ Len(CallsOf("ImportImage")) <= 1
    /\ (pc = "done" /\ r.fromImage = << >>) =>
          Len(CallsOf("ImportImage")) = (IF PassesValidation THEN 1 ELSE 0)

C10_Witness ==
    /\ pc = "done"
    /\ r.fromImage = << >>
    /\ Len(calls) = 1
    /\ calls[1].op = "ImportImage"

(***************************************************************************)
(* Exit paths, step order and cleanup of the handler.                      *)
(***************************************************************************)
\* C11 as stated: the sink is closed exactly once on every exit path, the
\* return after a form-parse failure included.
C11_ClosedOnEveryExit ==
    pc = "done" => output.closed = 1

\* C11, amended: the sink is closed exactly once on every exit path that
\* follows its creation at line 102 (platform failure, hard error, in-band
\* error, normal completion) and never before the exit; the return after a
\* form-parse failure precedes the creation, and nothing is closed there.
C11_ClosedOnceAfterCreation ==
    /\ output.closed <= 1
    /\ pc # "done" => output.closed = 0
    /\ pc = "done" => output.closed = (IF r.formErr THEN 0 ELSE 1)

C11_Witness ==
    /\ pc = "done"
    /\ ret = "errPull"
    /\ output.closed = 1

\* the calls a pull request makes, in the order of lines 147-166
PullOrder == << "getRegistryUrl", "convertImageTag", "PullImage", "TagImage",
                "ImageDelete" >>

\* every call so far is the next of PullOrder and has the arguments the
\* handler's step gives it
InPullOrder ==
    /\ Len(calls) <= 5
    /\ \A i \in 1..Len(calls) : calls[i].op = PullOrder[i]
    /\ Len(calls) >= 1 => calls[1].args = << r.fromImage \o <<":">> \o r.tag >>
    /\ Len(calls) >= 2 => calls[2].args[2] = r.fromImage
    /\ Len(calls) >= 3 => /\ calls[3].args[1] = calls[2].res
                          /\ calls[3].args[2] = r.tag
    /\ Len(calls) >= 4 =>
          calls[4].args = << calls[2].res \o <<":">> \o r.tag, r.fromImage, r.tag >>

\* C13 as stated: in every pull request the resolver, the rewriter,
\* PullImage and TagImage are each called exactly once, in this order and
\* with these arguments, then ImageDelete at most once.
C13_StrictOrder ==
    r.fromImage # << >> =>
        /\ InPullOrder
        /\ pc = "done" => Len(calls) \in {4, 5}

\* C13, amended: the same for every pull request that passes form parsing
\* and platform validation; a pull request that fails either makes no call.
C13_StrictOrderValidated ==
    r.fromImage # << >> =>
        /\ InPullOrder
        /\ pc = "done" =>
              IF PassesValidation THEN Len(calls) \in {4, 5} ELSE calls = << >>

C13_Witness ==
    /\ pc = "done"
    /\ r.fromImage = nginx
    /\ Len(calls) = 5
    /\ calls[5].op = "ImageDelete"

\* C14: a pull failure does not short-circuit.  Once PullImage has returned
\* an error, TagImage is the next call, and the error reaches the client (as
\* hard error or in-band) only after TagImage was called and the conditional
\* ImageDelete was decided.
C14_NoShortCircuit ==
    \A i \in 1..Len(calls) :
        (calls[i].op = "PullImage" /\ calls[i].res # "nil") =>
            /\ pc \in {"Cleanup", "Surface", "done"} =>
                  Len(calls) > i /\ calls[i + 1].op = "TagImage"
            /\ (ret = calls[i].res \/ ErrorObjects # << >>) =>
                  /\ Len(CallsOf("TagImage")) = 1
                  /\ ParseNormalizedNamed(srcTotalImage).ok
                  /\ (CallsOf("ImageDelete") # << >>) <=>
                        (newRetagReturn #
                           FamiliarString(ParseNormalizedNamed(srcTotalImage)))

C14_Witness ==
    /\ pc = "done"
    /\ ret = "errPull"
    /\ Len(CallsOf("TagImage")) = 1
    /\ Len(CallsOf("ImageDelete")) = 1

\* C15: conditional cleanup.  ImageDelete is called if and only if the
\* familiar form of newImage:tag differs from what TagImage returned; the
\* call names newImage:tag with force = FALSE and prune = TRUE, and its
\* error changes neither err nor what the handler returns.
C15_ConditionalCleanup ==
    (pc \in {"Surface", "done"} /\ CallsOf("TagImage") # << >>) =>
        LET ref == ParseNormalizedNamed(newImage \o <<":">> \o tag)
            dels == CallsOf("ImageDelete")
        IN  IF ref.ok /\ newRetagReturn # FamiliarString(ref)
              THEN /\ Len(dels) = 1
                   /\ dels[1].args = << newImage \o <<":">> \o tag, FALSE, TRUE >>
                   /\ err # "errDelete"
                   /\ ret # "errDelete"
                   /\ \A j \in 1..Len(ErrorObjects) :
                         ErrorObjects[j][2] # "errDelete"
              ELSE dels = << >>

C15_Witness ==
    /\ pc = "done"
    /\ ret = "nil"
    /\ Len(CallsOf("ImageDelete")) = 1
    /\ CallsOf("ImageDelete")[1].res = "errDelete"
    /\ CallsOf("ImageDelete")[1].args[1] = myreg \o Slash \o defaultUserName
                                             \o Slash \o nginx \o Colon \o latest

\* C16: platform validation is fatal and pre-stream.  At API version 1.32
\* or later a non-empty platform that fails parsing or host validation ends
\* the handler with that error, with no resolver or backend call made and
\* nothing flushed; below 1.32 the platform is never parsed and never fails.
C16_PlatformFatalPreStream ==
    LET atLeast132 == \/ r.version[1] > 1
                      \/ r.version[1] = 1 /\ r.version[2] >= 32
        bad == r.platform \in {"unparsable", "unsupported"}
    IN  /\ (pc = "done" /\ ~r.formErr /\ atLeast132 /\ bad) =>
              /\ ret = (IF r.platform = "unparsable" THEN "errPlatformParse"
                                                     ELSE "errPlatformValidate")
              /\ calls = << >>
              /\ output.written = << >>
              /\ ~output.flushed
        /\ ~atLeast132 =>
              /\ ret \notin {"errPlatformParse", "errPlatformValidate"}
              /\ platform = "nil"

C16_Witness ==
    /\ pc = "done"
    /\ r.fromImage = nginx
    /\ r.platform = "unsupported"
    /\ ret = "errPlatformValidate"
    /\ calls = << >>

\* C17: the image name handed to the rewriter has at most two '/', so
\* PullImage is never called with an empty rewritten reference.
C17_DeepNamesUnreachable ==
    \A i \in 1..Len(calls) :
        /\ calls[i].op = "convertImageTag" => Count(calls[i].args[2], "/") <= 2
        /\ calls[i].op = "PullImage" => calls[i].args[1] # << >>

\* C18: whatever TagImage returns, ImageDelete is never called on a
\* reference whose normalized form is that of the requested image:tag.
C18_RequestedNameNeverDeleted ==
    \A i \in 1..Len(calls) :
        calls[i].op = "ImageDelete" =>
            LET deleted == ParseNormalizedNamed(calls[i].args[1])
                wanted == ParseNormalizedNamed(r.fromImage \o Colon \o r.tag)
            IN  ~(deleted.ok /\ wanted.ok /\ deleted = wanted)

(***************************************************************************)
(* The rewriter on its own: convertImageTag applied to every image name of *)
(* at most MaxLen characters over RewriteAlphabet, and to the names of     *)
(* Images, under each domain of RewriteDomains.                            *)
(***************************************************************************)
RewriteAlphabet == {"a", ".", ":", "/"}

RewriteImages ==
    Images \cup UNION { [1..n -> RewriteAlphabet] : n \in 1..MaxLen }

RewriteDomains ==
    { defaultRegistryUrl, myreg, << >>,
      localhost \o <<":", "5", "0", "0", "0">> }

InitRewrite ==
    /\ image \in RewriteImages
    /\ registryUrl \in RewriteDomains
    /\ r = [formErr |-> FALSE, fromImage |-> image, tag |-> latest,
            version |-> <<1, 32>>, platform |-> ""]
    /\ pc = "Convert"
    /\ tag = latest
    /\ platform = "nil"
    /\ err = "nil"
    /\ output = NewWriteFlusher
    /\ newImage = << >>
    /\ srcTotalImage = << >>
    /\ newRetagReturn = << >>
    /\ ret = "running"
    /\ calls = << >>
    /\ store = {}
    /\ wf = << >>

NextRewrite == Convert

SpecRewrite == InitRewrite /\ [][NextRewrite]_vars

\* convertImageTag has been applied to (registryUrl, image)
Rewritten == pc = "PullImage"

\* C4: one-separator rule.  For an input a/b with exactly one '/', the
\* result is domain/a/b if and only if a has no '.' and no ':' and is not
\* "localhost"; in every other case it is domain/library/b.
C4_OneSeparator ==
    (Rewritten /\ Count(image, "/") = 1) =>
        \E k \in 1..Len(image) :
            /\ image[k] = "/"
            /\ LET a == SubSeq(image, 1, k - 1)
                   b == SubSeq(image, k + 1, Len(image))
                   user == /\ \A j \in 1..Len(a) : a[j] # "." /\ a[j] # ":"
                           /\ a # localhost
               IN  /\ (newImage = registryUrl \o Slash \o a \o Slash \o b) <=> user
                   /\ ~user => newImage = registryUrl \o <<"/">> \o defaultUserName
                                              \o <<"/">> \o b

C4_Witness ==
    /\ Rewritten
    /\ image = localhost \o Slash \o nginx
    /\ registryUrl = myreg
    /\ newImage = myreg \o Slash \o defaultUserName \o Slash \o nginx

\* C5: zero-separator rule.  For an image name without '/', the result is
\* exactly domain/library/image.
C5_ZeroSeparators ==
    (Rewritten /\ \A k \in 1..Len(image) : image[k] # "/") =>
        newImage = registryUrl \o <<"/", "l", "i", "b", "r", "a", "r", "y", "/">>
                     \o image

C5_Witness ==
    /\ Rewritten
    /\ image = nginx
    /\ registryUrl = myreg
    /\ newImage = myreg \o Slash \o defaultUserName \o Slash \o nginx

\* C6: two-separator rule.  For an input a/b/c with exactly two '/', the
\* first segment is dropped whatever it looks like and the result is
\* domain/b/c.
C6_TwoSeparators ==
    (Rewritten /\ Count(image, "/") = 2) =>
        \E k \in 1..Len(image) :
            /\ image[k] = "/"
            /\ \A j \in 1..(k - 1) : image[j] # "/"
            /\ newImage = registryUrl \o <<"/">>
                            \o SubSeq(image, k + 1, Len(image))

C6_Witness ==
    /\ Rewritten
    /\ image = oldreg \o Slash \o myuser \o Slash \o nginx
    /\ registryUrl = defaultRegistryUrl
    /\ newImage = defaultRegistryUrl \o Slash \o myuser \o Slash \o nginx

\* C7: on an input with three or more '/' the rewriter returns the empty
\* string, for every domain.
C7_ThreeOrMore ==
    (Rewritten /\ Count(image, "/") >= 3) => newImage = << >>

C7_Witness ==
    /\ Rewritten
    /\ image = <<"a", "/", "b", "/", "c", "/", "d">>
    /\ registryUrl = myreg
    /\ newImage = << >>

\* C19: domain replacement is idempotent.  For domains without '/' and an
\* image name with at most two '/', rewriting the result again under a
\* second domain gives what rewriting the name under that domain gives, and
\* every result is the domain, a '/', and a remainder with exactly one '/'.
C19_Idempotent ==
    (Rewritten /\ Count(image, "/") <= 2) =>
        /\ \A d2 \in RewriteDomains :
              convertImageTag(d2, newImage) = convertImageTag(d2, image)
        /\ Len(newImage) > Len(registryUrl)
        /\ SubSeq(newImage, 1, Len(registryUrl) + 1) = registryUrl \o <<"/">>
        /\ Cardinality({ k \in (Len(registryUrl) + 2)..Len(newImage) :
                           newImage[k] = "/" }) = 1

C19_Witness ==
    /\ Rewritten
    /\ image = oldreg \o Slash \o myuser \o Slash \o nginx
    /\ registryUrl = localhost \o <<":", "5", "0", "0", "0">>
    /\ convertImageTag(myreg, newImage) = myreg \o Slash \o myuser \o Slash \o nginx

(***************************************************************************)
(* Two pull workflows on one backend.  Each runs lines 147-170 for its own *)
(* request; the backend's reference store is the only state they share.    *)
(* The backend (Pull, Tag, Delete of section 6 of the specification) keeps *)
(* a store of normalized references, each naming the image it points to.   *)
(***************************************************************************)
Workflows == {1, 2}

\* requested names the concurrent workflows draw from, all different
ConcurrentImages ==
    { nginx, myuser \o Slash \o nginx, oldreg \o Slash \o myuser \o Slash \o nginx }

\* the domains the resolver gives a workflow
ConcurrentDomains == { defaultRegistryUrl, myreg }

\* reference.Named.String(): the fully qualified name a reference is stored under
Canonical(ref) ==
    ref.domain \o Slash \o ref.path \o (IF ref.hasTag THEN Colon \o ref.tag ELSE << >>)

\* the names in the reference store
Names(st) == { e.name : e \in st }

\* the store after the normalized name n is made to point to the image id
Point(st, n, id) == { e \in st : e.name # n } \cup { [name |-> n, id |-> id] }

\* the image the normalized name n points to
ImageOf(st, n) == (CHOOSE e \in st : e.name = n).id

\* backend.PullImage(ref, tag) that succeeds: ref:tag now names the image
\* the registry serves under it
BackendPull(st, ref, t) ==
    Point(st, Canonical(ParseNormalizedNamed(ref \o Colon \o t)),
              Canonical(ParseNormalizedNamed(ref \o Colon \o t)))

\* TagImage once both references are parsed: from is the normalized source
\* name, to the parsed destination
TagParsed(st, from, to) ==
    IF from \notin Names(st)
      THEN [store |-> st, ret |-> << >>, ok |-> FALSE]
      ELSE [store |-> Point(st, Canonical(to), ImageOf(st, from)),
            ret |-> FamiliarString(to),
            ok |-> TRUE]

\* backend.TagImage(src, repo, tag): the store after it, the string it
\* returns and whether it succeeded
BackendTag(st, src, repo, t) ==
    TagParsed(st, Canonical(ParseNormalizedNamed(src)),
                  ParseNormalizedNamed(repo \o Colon \o t))

\* ImageDelete once the reference is parsed: n is its normalized name
DeleteParsed(st, n) ==
    IF n \in Names(st)
      THEN [store |-> { e \in st : e.name # n }, ok |-> TRUE]
      ELSE [store |-> st, ok |-> FALSE]

\* backend.ImageDelete(src, false, true): the store after it and whether it
\* succeeded
BackendDelete(st, src) == DeleteParsed(st, Canonical(ParseNormalizedNamed(src)))

\* what a workflow reports of its Tag and Delete calls
NoOutcome == [tagOk |-> FALSE, delCalled |-> FALSE, delOk |-> FALSE]

\* a workflow about to run line 147 for its request
ConcurrentRequests ==
    { [ pc |-> "PullImage", image |-> i, tag |-> latest, registryUrl |-> d,
        pullOk |-> ok, newImage |-> << >>, newRetagReturn |-> << >>,
        out |-> NoOutcome ] :
      i \in ConcurrentImages, d \in ConcurrentDomains, ok \in BOOLEAN }

InitConcurrent ==
    /\ \E a \in ConcurrentRequests, b \in ConcurrentRequests :
          /\ a.image # b.image
          /\ wf = << a, b >>
    /\ store = {}
    /\ r = [formErr |-> FALSE, fromImage |-> << >>, tag |-> latest,
            version |-> <<1, 32>>, platform |-> ""]
    /\ pc = "done"
    /\ image = << >>
    /\ tag = << >>
    /\ platform = "nil"
    /\ err = "nil"
    /\ output = NewWriteFlusher
    /\ registryUrl = << >>
    /\ newImage = << >>
    /\ srcTotalImage = << >>
    /\ newRetagReturn = << >>
    /\ ret = "running"
    /\ calls = << >>

\* workflow w after PullImage of the rewritten reference new
Pulled(w, new) ==
    /\ wf' = [wf EXCEPT ![w].newImage = new, ![w].pc = "TagImage"]
    /\ store' = IF wf[w].pullOk THEN BackendPull(store, new, wf[w].tag) ELSE store

\* lines 147-151 of workflow w
ConcurrentPull(w) ==
    /\ wf[w].pc = "PullImage"
    /\ Pulled(w, convertImageTag(wf[w].registryUrl, wf[w].image))
    /\ UNCHANGED << pc, r, image, tag, platform, err, output, registryUrl,
                    newImage, srcTotalImage, newRetagReturn, ret, calls >>

\* workflow w after TagImage answered res
Tagged(w, res) ==
    /\ wf' = [wf EXCEPT ![w].newRetagReturn = res.ret,
                        ![w].out.tagOk = res.ok,
                        ![w].pc = "Cleanup"]
    /\ store' = res.store

\* lines 153-161 of workflow w
ConcurrentTag(w) ==
    /\ wf[w].pc = "TagImage"
    /\ Tagged(w, BackendTag(store, wf[w].newImage \o Colon \o wf[w].tag,
                            wf[w].image, wf[w].tag))
    /\ UNCHANGED << pc, r, image, tag, platform, err, output, registryUrl,
                    newImage, srcTotalImage, newRetagReturn, ret, calls >>

\* workflow w after ImageDelete answered res
Deleted(w, res) ==
    /\ wf' = [wf EXCEPT ![w].out.delCalled = TRUE,
                        ![w].out.delOk = res.ok,
                        ![w].pc = "done"]
    /\ store' = res.store

\* lines 164-170 of workflow w, src being newImage:tag
CleanedUp(w, src) ==
    IF wf[w].newRetagReturn # FamiliarString(ParseNormalizedNamed(src))
      THEN Deleted(w, BackendDelete(store, src))
      ELSE /\ wf' = [wf EXCEPT ![w].pc = "done"]
           /\ UNCHANGED store

\* lines 163-171 of workflow w
ConcurrentCleanup(w) ==
    /\ wf[w].pc = "Cleanup"
    /\ CleanedUp(w, wf[w].newImage \o Colon \o wf[w].tag)
    /\ UNCHANGED << pc, r, image, tag, platform, err, output, registryUrl,
                    newImage, srcTotalImage, newRetagReturn, ret, calls >>

NextConcurrent ==
    \E w \in Workflows :
        \/ ConcurrentPull(w)
        \/ ConcurrentTag(w)
        \/ ConcurrentCleanup(w)

SpecConcurrent == InitConcurrent /\ [][NextConcurrent]_vars

\* the end of a workflow run alone: tagged is TagImage's answer, deleted
\* the answer ImageDelete gives if called, deletes whether it is called
RunEnd(tagged, deleted, deletes) ==
    [store |-> IF deletes THEN deleted.store ELSE tagged.store,
     out |-> [tagOk |-> tagged.ok, delCalled |-> deletes,
              delOk |-> deletes /\ deleted.ok]]

\* lines 163-170 of a workflow run alone, after TagImage answered tagged
RunCleanup(tagged, src) ==
    RunEnd(tagged, BackendDelete(tagged.store, src),
           tagged.ret # FamiliarString(ParseNormalizedNamed(src)))

\* lines 151-170 of a workflow run alone on the store st
RunFrom(st, req, new) ==
    RunCleanup(BackendTag(IF req.pullOk THEN BackendPull(st, new, req.tag) ELSE st,
                          new \o Colon \o req.tag, req.image, req.tag),
               new \o Colon \o req.tag)

\* one workflow run alone, start to end, on the store st
RunAlone(st, req) == RunFrom(st, req, convertImageTag(req.registryUrl, req.image))

\* both workflows have finished
AllDone == wf # << >> /\ \A w \in Workflows : wf[w].pc = "done"

\* the store and the outcomes are those of running workflow first alone,
\* with result a, and then workflow second
SequentialThen(a, b, first, second) ==
    /\ store = b.store
    /\ wf[first].out = a.out
    /\ wf[second].out = b.out

SequentialResult(a, first, second) ==
    SequentialThen(a, RunAlone(a.store, wf[second]), first, second)

\* C12: concurrent pulls of different images need no ordering.  Whatever
\* the interleaving of the two workflows' Pull, Tag and Delete steps, the
\* backend's references and each request's Tag and Delete outcomes are those
\* of running the two workflows one after the other.
C12_NoOrderingNeeded ==
    AllDone =>
        \E first \in Workflows :
            \E second \in Workflows \ {first} :
                SequentialResult(RunAlone({}, wf[first]), first, second)

====
